---- MODULE Spec2Model ----
(***************************************************************************)
(* Model of markitdown's _CustomMarkdownify                                *)
(* (packages/markitdown/src/markitdown/converters/_markdownify.py):        *)
(* the heading, link and image renderers, the library functions they call  *)
(* (markdownify.chomp and MarkdownConverter.convert_hn, urllib.parse,      *)
(* base64, os.path) and the image output directory they write to.          *)
(*                                                                         *)
(* A character is its Unicode code point and a string is a sequence of     *)
(* code points, so that percent-encoding, UTF-8 and base64 are computed    *)
(* the way the library computes them.                                      *)
(***************************************************************************)
EXTENDS Integers, Sequences, FiniteSets, TLC

(***************************************************************************)
(* Bounds of the model.                                                    *)
(***************************************************************************)
\* length of the href paths enumerated character by character
MaxPathLen == 3
\* how many times an enumerated path is percent-encoded again
MaxEncodings == 3
\* how many times a rendered href is fed back to the link renderer
MaxFeeds == 2
\* images each concurrent pass extracts
MaxImages == 2

(***************************************************************************)
(* Strings.                                                                *)
(***************************************************************************)
Printable ==
  << " ", "!", "\"", "#", "$", "%", "&", "'", "(", ")", "*", "+", ",", "-", ".", "/",
     "0", "1", "2", "3", "4", "5", "6", "7", "8", "9", ":", ";", "<", "=", ">", "?",
     "@", "A", "B", "C", "D", "E", "F", "G", "H", "I", "J", "K", "L", "M", "N", "O",
     "P", "Q", "R", "S", "T", "U", "V", "W", "X", "Y", "Z", "[", "\\", "]", "^", "_",
     "a", "b", "c", "d", "e", "f", "g", "h", "i", "j", "k", "l", "m", "n", "o",
     "p", "q", "r", "s", "t", "u", "v", "w", "x", "y", "z", "{", "|", "}", "~" >>

\* the code point of a character written as a one-character string
\* (the table omits the backquote, code point 96, between "_" and "a")
OrdTab ==
  [c \in {Printable[i] : i \in 1..Len(Printable)} |->
     LET i == CHOOSE j \in 1..Len(Printable) : Printable[j] = c
     IN  IF i <= 64 THEN 31 + i ELSE 32 + i]

Ord(c) == IF c = "\n" THEN 10 ELSE IF c = "\t" THEN 9 ELSE OrdTab[c]

\* the string whose characters are cs
Str(cs) == [i \in 1..Len(cs) |-> Ord(cs[i])]

Min(S) == CHOOSE x \in S : \A y \in S : x <= y
Max(S) == CHOOSE x \in S : \A y \in S : y <= x

\* str.find(c, from): the first index >= from holding c, 0 when there is none
FindFrom(s, c, from) ==
  LET I == {i \in from..Len(s) : s[i] = c}
  IN  IF I = {} THEN 0 ELSE Min(I)

Find(s, c) == FindFrom(s, c, 1)

\* str.rfind(c)
RFind(s, c) ==
  LET I == {i \in 1..Len(s) : s[i] = c}
  IN  IF I = {} THEN 0 ELSE Max(I)

Contains(s, c) == \E i \in 1..Len(s) : s[i] = c

StartsWith(s, p) == Len(s) >= Len(p) /\ SubSeq(s, 1, Len(p)) = p

\* s[i:] in 1-based indices
From(s, i) == SubSeq(s, i, Len(s))

\* sub occurs somewhere in s
HasSubstring(s, sub) ==
  \E i \in 1..(Len(s) - Len(sub) + 1) : SubSeq(s, i, i + Len(sub) - 1) = sub

\* str.split(c): the fields between the occurrences of c
RECURSIVE Split(_, _)
Split(s, c) ==
  LET i == Find(s, c)
  IN  IF i = 0 THEN <<s>>
      ELSE <<SubSeq(s, 1, i - 1)>> \o Split(From(s, i + 1), c)

\* str.replace(old, new), old not empty
RECURSIVE Replace(_, _, _)
Replace(s, old, new) ==
  IF s = <<>> THEN <<>>
  ELSE IF StartsWith(s, old) THEN new \o Replace(From(s, Len(old) + 1), old, new)
  ELSE <<s[1]>> \o Replace(Tail(s), old, new)

\* str.isspace() of one character: what str.strip() removes
IsSpace(c) == c \in (9..13) \cup (28..32) \cup {133, 160}

\* str.strip()
Strip(s) ==
  LET I == {i \in 1..Len(s) : ~IsSpace(s[i])}
  IN  IF I = {} THEN <<>> ELSE SubSeq(s, Min(I), Max(I))

IsUpper(c) == c \in Ord("A")..Ord("Z")
IsLower(c) == c \in Ord("a")..Ord("z")
IsDigit(c) == c \in Ord("0")..Ord("9")

\* str.lower() on ASCII
Lower(s) == [i \in 1..Len(s) |-> IF IsUpper(s[i]) THEN s[i] + 32 ELSE s[i]]

\* Python's None, for an attribute or an option that is absent
None == <<0 - 1>>

(***************************************************************************)
(* urllib.parse.quote and unquote, as convert_a calls them: quote(s) with  *)
(* safe = "/", unquote(s) with encoding = "utf-8" and errors = "replace".  *)
(***************************************************************************)
HexDigits == Str(<<"0", "1", "2", "3", "4", "5", "6", "7", "8", "9", "A", "B", "C", "D", "E", "F">>)

IsHex(c) == IsDigit(c) \/ c \in Ord("A")..Ord("F") \/ c \in Ord("a")..Ord("f")

HexVal(c) ==
  IF IsDigit(c) THEN c - Ord("0")
  ELSE IF c \in Ord("A")..Ord("F") THEN c - Ord("A") + 10
  ELSE c - Ord("a") + 10

\* the code points a lone surrogate has: str.encode("utf-8") raises on them
IsSurrogate(c) == c \in 55296..57343

\* str.encode("utf-8") of one character
Utf8Encode(c) ==
  IF c < 128 THEN <<c>>
  ELSE IF c < 2048 THEN <<192 + (c \div 64), 128 + (c % 64)>>
  ELSE IF c < 65536 THEN <<224 + (c \div 4096), 128 + ((c \div 64) % 64), 128 + (c % 64)>>
  ELSE <<240 + (c \div 262144), 128 + ((c \div 4096) % 64), 128 + ((c \div 64) % 64), 128 + (c % 64)>>

IsCont(b) == b \in 128..191

\* the second byte a UTF-8 lead byte accepts
SecondOk(lead, b) ==
  IF lead = 224 THEN b \in 160..191
  ELSE IF lead = 237 THEN b \in 128..159
  ELSE IF lead = 240 THEN b \in 144..191
  ELSE IF lead = 244 THEN b \in 128..143
  ELSE IsCont(b)

\* bytes.decode("utf-8", "replace"): an ill-formed sequence becomes U+FFFD, one for
\* each maximal ill-formed part. An element below zero is a character that was not
\* part of the decoded bytes (unquote passes non-ASCII characters through).
RECURSIVE Utf8Decode(_)
Utf8Decode(bs) ==
  IF bs = <<>> THEN <<>>
  ELSE
    LET b == bs[1]
        n == Len(bs)
        need == IF b \in 194..223 THEN 1
                ELSE IF b \in 224..239 THEN 2
                ELSE IF b \in 240..244 THEN 3
                ELSE 0
        \* how many of the following bytes continue the sequence b starts
        got == IF need = 0 \/ n < 2 \/ bs[2] < 0 \/ ~SecondOk(b, bs[2]) THEN 0
               ELSE IF need = 1 \/ n < 3 \/ ~IsCont(bs[3]) THEN 1
               ELSE IF need = 2 \/ n < 4 \/ ~IsCont(bs[4]) THEN 2
               ELSE 3
    IN  IF b < 0 THEN <<0 - b>> \o Utf8Decode(Tail(bs))
        ELSE IF b < 128 THEN <<b>> \o Utf8Decode(Tail(bs))
        ELSE IF need = 0 \/ got < need THEN <<65533>> \o Utf8Decode(From(bs, got + 2))
        ELSE IF need = 1 THEN
          <<(b - 192) * 64 + (bs[2] - 128)>> \o Utf8Decode(From(bs, 3))
        ELSE IF need = 2 THEN
          <<(b - 224) * 4096 + (bs[2] - 128) * 64 + (bs[3] - 128)>> \o Utf8Decode(From(bs, 4))
        ELSE
          <<(b - 240) * 262144 + (bs[2] - 128) * 4096 + (bs[3] - 128) * 64 + (bs[4] - 128)>>
            \o Utf8Decode(From(bs, 5))

\* unquote_to_bytes over the ASCII runs of s: "%XX" becomes the byte XX, a "%" that no
\* two hex digits follow stays, and a non-ASCII character is kept aside (negated)
RECURSIVE UnquoteToBytes(_)
UnquoteToBytes(s) ==
  IF s = <<>> THEN <<>>
  ELSE IF s[1] = Ord("%") /\ Len(s) >= 3 /\ IsHex(s[2]) /\ IsHex(s[3]) THEN
    <<16 * HexVal(s[2]) + HexVal(s[3])>> \o UnquoteToBytes(From(s, 4))
  ELSE IF s[1] >= 128 THEN <<0 - s[1]>> \o UnquoteToBytes(Tail(s))
  ELSE <<s[1]>> \o UnquoteToBytes(Tail(s))

unquote(s) == Utf8Decode(UnquoteToBytes(s))

\* the characters quote never encodes: letters, digits, "_.-~", and safe = "/"
IsSafe(c) ==
  \/ IsUpper(c) \/ IsLower(c) \/ IsDigit(c)
  \/ c \in {Ord("_"), Ord("."), Ord("-"), Ord("~"), Ord("/")}

PercentByte(b) == <<Ord("%"), HexDigits[(b \div 16) + 1], HexDigits[(b % 16) + 1]>>

RECURSIVE PercentBytes(_)
PercentBytes(bs) ==
  IF bs = <<>> THEN <<>> ELSE PercentByte(bs[1]) \o PercentBytes(Tail(bs))

\* quote raises UnicodeEncodeError (a ValueError) on a lone surrogate
QuoteRaises(s) == \E i \in 1..Len(s) : IsSurrogate(s[i])

RECURSIVE quote(_)
quote(s) ==
  IF s = <<>> THEN <<>>
  ELSE (IF IsSafe(s[1]) THEN <<s[1]>> ELSE PercentBytes(Utf8Encode(s[1]))) \o quote(Tail(s))

(***************************************************************************)
(* urllib.parse.urlparse and urlunparse (CPython 3.11).                    *)
(***************************************************************************)
HTTP == Str(<<"h", "t", "t", "p">>)
HTTPS == Str(<<"h", "t", "t", "p", "s">>)
FILE == Str(<<"f", "i", "l", "e">>)

\* the members of urllib.parse.uses_params and uses_netloc a link can reach: convert_a
\* returns before urlunparse for every scheme but "", http, https and file
UsesParams == {<<>>, HTTP, HTTPS}
UsesNetloc == {<<>>, HTTP, HTTPS, FILE}

\* url.lstrip(_WHATWG_C0_CONTROL_OR_SPACE)
RECURSIVE LStripC0(_)
LStripC0(s) == IF s # <<>> /\ s[1] \in 0..32 THEN LStripC0(Tail(s)) ELSE s

\* url.replace(b, "") for each b of _UNSAFE_URL_BYTES_TO_REMOVE: tab, CR, LF
RECURSIVE RemoveUnsafe(_)
RemoveUnsafe(s) ==
  IF s = <<>> THEN <<>>
  ELSE (IF s[1] \in {9, 10, 13} THEN <<>> ELSE <<s[1]>>) \o RemoveUnsafe(Tail(s))

IsSchemeChar(c) ==
  IsUpper(c) \/ IsLower(c) \/ IsDigit(c) \/ c \in {Ord("+"), Ord("-"), Ord(".")}

\* the index of the ":" that ends a scheme, 0 when the URL declares none
SchemeEnd(url) ==
  LET i == Find(url, Ord(":"))
  IN  IF /\ i > 1
         /\ (IsUpper(url[1]) \/ IsLower(url[1]))
         /\ \A k \in 1..(i - 1) : IsSchemeChar(url[k])
      THEN i ELSE 0

\* _splitnetloc(url, 2): where the netloc that follows "//" ends
NetlocEnd(url) ==
  LET I == {i \in 3..Len(url) : url[i] \in {Ord("/"), Ord("?"), Ord("#")}}
  IN  IF I = {} THEN Len(url) ELSE Min(I) - 1

\* _splitparams(url)
SplitParams(url) ==
  LET slash == RFind(url, Ord("/"))
      i == IF slash > 0 THEN FindFrom(url, Ord(";"), slash) ELSE Find(url, Ord(";"))
  IN  IF i = 0 THEN <<url, <<>>>> ELSE <<SubSeq(url, 1, i - 1), From(url, i + 1)>>

\* urlsplit, step by step. r is the URL split so far: [scheme, netloc, url, query,
\* fragment], url being the part not yet split.
SplitScheme(url, se) ==
  [scheme |-> IF se > 0 THEN Lower(SubSeq(url, 1, se - 1)) ELSE <<>>,
   netloc |-> <<>>,
   url |-> IF se > 0 THEN From(url, se + 1) ELSE url,
   query |-> <<>>, fragment |-> <<>>]

SplitNetloc(r, ne) ==
  IF StartsWith(r.url, Str(<<"/", "/">>))
  THEN [r EXCEPT !.netloc = SubSeq(r.url, 3, ne), !.url = From(r.url, ne + 1)]
  ELSE r

SplitFragment(r, hash) ==
  IF hash > 0
  THEN [r EXCEPT !.fragment = From(r.url, hash + 1), !.url = SubSeq(r.url, 1, hash - 1)]
  ELSE r

SplitQuery(r, qm) ==
  IF qm > 0
  THEN [r EXCEPT !.query = From(r.url, qm + 1), !.url = SubSeq(r.url, 1, qm - 1)]
  ELSE r

\* the rest of urlparse: the "Invalid IPv6 URL" check of urlsplit and the params.
\* ok = FALSE stands for ValueError. No href of the model has both brackets in its
\* netloc, so _check_bracketed_host is never reached, and every netloc is ASCII, so
\* _checknetloc returns at once.
ParseResult(r, sp) ==
  IF Contains(r.netloc, Ord("[")) # Contains(r.netloc, Ord("]"))
  THEN [ok |-> FALSE]
  ELSE [ok |-> TRUE, scheme |-> r.scheme, netloc |-> r.netloc, path |-> sp[1],
        params |-> sp[2], query |-> r.query, fragment |-> r.fragment]

WithParams(r) ==
  ParseResult(r, IF r.scheme \in UsesParams /\ Contains(r.url, Ord(";"))
                 THEN SplitParams(r.url) ELSE <<r.url, <<>>>>)

WithQuery(r) == WithParams(SplitQuery(r, Find(r.url, Ord("?"))))
WithFragment(r) == WithQuery(SplitFragment(r, Find(r.url, Ord("#"))))
WithNetloc(r) == WithFragment(SplitNetloc(r, NetlocEnd(r.url)))
WithScheme(url) == WithNetloc(SplitScheme(url, SchemeEnd(url)))

urlparse(href) == WithScheme(RemoveUnsafe(LStripC0(href)))

\* urlunsplit((scheme, netloc, url, query, fragment))
AddNetloc(scheme, netloc, url) ==
  IF netloc # <<>> \/ (scheme # <<>> /\ scheme \in UsesNetloc /\ ~StartsWith(url, Str(<<"/", "/">>)))
  THEN Str(<<"/", "/">>) \o netloc
         \o (IF url # <<>> /\ url[1] # Ord("/") THEN Str(<<"/">>) ELSE <<>>) \o url
  ELSE url

urlunsplit(scheme, netloc, url, query, fragment) ==
  (IF scheme # <<>> THEN scheme \o Str(<<":">>) ELSE <<>>)
    \o AddNetloc(scheme, netloc, url)
    \o (IF query # <<>> THEN Str(<<"?">>) \o query ELSE <<>>)
    \o (IF fragment # <<>> THEN Str(<<"#">>) \o fragment ELSE <<>>)

\* urlunparse(parsed)
urlunparse(p) ==
  urlunsplit(p.scheme, p.netloc,
             IF p.params # <<>> THEN p.path \o Str(<<";">>) \o p.params ELSE p.path,
             p.query, p.fragment)

(***************************************************************************)
(* base64.b64decode(s) with validate = False, through binascii.a2b_base64. *)
(***************************************************************************)
\* the value of a base64 digit, 64 for a character outside the alphabet
B64Val(c) ==
  IF IsUpper(c) THEN c - Ord("A")
  ELSE IF IsLower(c) THEN c - Ord("a") + 26
  ELSE IF IsDigit(c) THEN c - Ord("0") + 52
  ELSE IF c = Ord("+") THEN 62
  ELSE IF c = Ord("/") THEN 63
  ELSE 64

\* the loop of a2b_base64 over the rest s of the input: quad is the position in the
\* current group of four digits, left the bits not yet written, pads the "=" seen since
\* the last digit, out the bytes written. A character outside the alphabet is skipped;
\* the padding that completes a group ends the decoding; digits left over at the end
\* are binascii.Error.
RECURSIVE A2B(_, _, _, _, _)
A2B(s, quad, left, pads, out) ==
  IF s = <<>> THEN [ok |-> quad = 0, bytes |-> out]
  ELSE IF s[1] = Ord("=") THEN
    IF quad >= 2 /\ quad + pads + 1 >= 4 THEN [ok |-> TRUE, bytes |-> out]
    ELSE A2B(Tail(s), quad, left, IF quad >= 2 THEN pads + 1 ELSE pads, out)
  ELSE
    LET v == B64Val(s[1])
    IN  IF v = 64 THEN A2B(Tail(s), quad, left, pads, out)
        ELSE IF quad = 0 THEN A2B(Tail(s), 1, v, 0, out)
        ELSE IF quad = 1 THEN
          A2B(Tail(s), 2, v % 16, 0, Append(out, left * 4 + (v \div 16)))
        ELSE IF quad = 2 THEN
          A2B(Tail(s), 3, v % 4, 0, Append(out, left * 16 + (v \div 4)))
        ELSE A2B(Tail(s), 0, 0, 0, Append(out, left * 64 + v))

\* ok = FALSE stands for the exception: ValueError on a non-ASCII character,
\* binascii.Error on leftover digits
b64decode(s) ==
  IF \E i \in 1..Len(s) : s[i] >= 128 THEN [ok |-> FALSE, bytes |-> <<>>]
  ELSE A2B(s, 0, 0, 0, <<>>)

(***************************************************************************)
(* os.path (posixpath).                                                    *)
(***************************************************************************)
SEP == Str(<<"/">>)

\* os.path.basename(p): what follows the last "/"
basename(p) == From(p, RFind(p, Ord("/")) + 1)

\* os.path.join(a, b)
join(a, b) ==
  IF StartsWith(b, SEP) THEN b
  ELSE IF a = <<>> \/ a[Len(a)] = Ord("/") THEN a \o b
  ELSE a \o SEP \o b

\* the directory a path names: trailing separators do not matter to the file system
RECURSIVE DirOf(_)
DirOf(p) == IF Len(p) > 1 /\ p[Len(p)] = Ord("/") THEN DirOf(SubSeq(p, 1, Len(p) - 1)) ELSE p

(***************************************************************************)
(* markdownify: chomp and MarkdownConverter.convert_hn, the functions the  *)
(* overrides call.                                                         *)
(***************************************************************************)
SP == Str(<<" ">>)
NL == Str(<<"\n">>)

\* markdownify.chomp(text): (prefix, suffix, text), where prefix and suffix are one
\* space when text begins or ends with a space, and text is stripped
chomp(text) ==
  [prefix |-> IF text # <<>> /\ text[1] = Ord(" ") THEN SP ELSE <<>>,
   suffix |-> IF text # <<>> /\ text[Len(text)] = Ord(" ") THEN SP ELSE <<>>,
   text |-> Strip(text)]

\* all_whitespace_re.sub(" ", text): each run of spaces, tabs, CR and LF becomes a space
RECURSIVE CollapseWhitespace(_)
CollapseWhitespace(s) ==
  LET ws == {9, 10, 13, 32}
  IN  IF s = <<>> THEN <<>>
      ELSE IF s[1] \in ws THEN
        IF Len(s) >= 2 /\ s[2] \in ws THEN CollapseWhitespace(Tail(s))
        ELSE SP \o CollapseWhitespace(Tail(s))
      ELSE <<s[1]>> \o CollapseWhitespace(Tail(s))

Hashes(n) == [i \in 1..n |-> Ord("#")]

\* The releases of markdownify whose MarkdownConverter has convert_hn(n, el, text,
\* convert_as_inline), the method line 35 and 37 call: up to 0.13 a heading is
\* "# text\n\n" ("plain"), from 0.14 it is "\n# text\n\n" with its whitespace
\* collapsed ("newline"). The dependency is not pinned.
Libs == {"plain", "newline"}

\* MarkdownConverter.convert_hn with heading_style = ATX, the default line 19 sets
MarkdownConverter_convert_hn(lib, n, text, convert_as_inline) ==
  IF convert_as_inline THEN text
  ELSE IF lib = "plain" THEN Hashes(n) \o SP \o Strip(text) \o NL \o NL
  ELSE NL \o Hashes(Max({1, Min({6, n})})) \o SP \o CollapseWhitespace(Strip(text)) \o NL \o NL

(***************************************************************************)
(* The renderers of _CustomMarkdownify. A call ends in a return or in an   *)
(* exception that leaves the renderer; line is the source line of the      *)
(* statement that ended it.                                                *)
(***************************************************************************)
Return(v, line) == [kind |-> "return", val |-> v, exc |-> "", line |-> line]
Raise(e, line) == [kind |-> "raise", val |-> <<>>, exc |-> e, line |-> line]

\* Python truth of an attribute: neither None nor ""
Truthy(s) == s # None /\ s # <<>>

\* text.replace("\_", "_")
UnescapeUnderscores(text) == Replace(text, Str(<<"\\", "_">>), Str(<<"_">>))

\* ' "%s"' % title.replace('"', r'\"') if title else ""
TitlePart(title) ==
  IF Truthy(title)
  THEN Str(<<" ", "\"">>) \o Replace(title, Str(<<"\"">>), Str(<<"\\", "\"">>)) \o Str(<<"\"">>)
  ELSE <<>>

convert_hn(lib, n, text, convert_as_inline) ==
  IF ~convert_as_inline /\ ~StartsWith(text, NL)
  THEN Return(NL \o MarkdownConverter_convert_hn(lib, n, text, convert_as_inline), 35)
  ELSE Return(MarkdownConverter_convert_hn(lib, n, text, convert_as_inline), 37)

AllowedSchemes == {HTTP, HTTPS, FILE}

\* RewritePath without the unquote of line 63
RewritePath_QuoteOnly(path) == quote(path)

\* quote(unquote(path)), the rewrite of the path of an href
RewritePath(path) == quote(unquote(path))

\* EscapeParsed with the scheme test of line 61 as a blacklist of "javascript"
EscapeParsed_Blacklist(href, p) ==
  IF ~p.ok THEN [kind |-> "error", href |-> href]
  ELSE IF p.scheme = Str(<<"j", "a", "v", "a", "s", "c", "r", "i", "p", "t">>)
    THEN [kind |-> "reject", href |-> href]
  ELSE [kind |-> "ok", href |-> urlunparse([p EXCEPT !.path = quote(unquote(p.path))])]

\* lines 61-65 on the parsed href. "reject" is the return of line 62, "error" the
\* return of line 65 (ValueError from urlparse or from quote)
EscapeParsed(href, p) ==
  IF ~p.ok THEN [kind |-> "error", href |-> href]
  ELSE IF p.scheme # <<>> /\ Lower(p.scheme) \notin AllowedSchemes
    THEN [kind |-> "reject", href |-> href]
  ELSE IF QuoteRaises(unquote(p.path)) THEN [kind |-> "error", href |-> href]
  ELSE [kind |-> "ok", href |-> urlunparse([p EXCEPT !.path = RewritePath(p.path)])]

\* lines 58-65: what becomes of the href attribute
EscapeHref(href) ==
  IF Truthy(href) THEN EscapeParsed(href, urlparse(href)) ELSE [kind |-> "ok", href |-> href]

\* lines 68-83, with c the chomped text, href the escaped href and title the attribute
RenderLink(c, href, title, options) ==
  IF /\ options.autolinks
     /\ UnescapeUnderscores(c.text) = href
     /\ ~Truthy(title)
     /\ ~options.default_title
  THEN Return(Str(<<"<">>) \o href \o Str(<<">">>), 75)
  ELSE IF Truthy(href)
    THEN Return(c.prefix \o Str(<<"[">>) \o c.text \o Str(<<"]", "(">>) \o href
                  \o TitlePart(IF options.default_title /\ ~Truthy(title) THEN href ELSE title)
                  \o Str(<<")">>) \o c.suffix, 80)
  ELSE Return(c.text, 82)

\* LinkOf with line 62 returning the text alone, as lines 52 and 82 do
LinkOf_RejectedBare(el, c, e, options) ==
  IF c.text = <<>> THEN Return(<<>>, 49)
  ELSE IF el.pre THEN Return(c.text, 52)
  ELSE IF e.kind = "reject" THEN Return(c.text, 62)
  ELSE IF e.kind = "error" THEN Return(c.prefix \o c.text \o c.suffix, 65)
  ELSE RenderLink(c, e.href, el.title, options)

\* lines 48-65, with c the chomped text and e the escaped href
LinkOf(el, c, e, options) ==
  IF c.text = <<>> THEN Return(<<>>, 49)
  ELSE IF el.pre THEN Return(c.text, 52)
  ELSE IF e.kind = "reject" THEN Return(c.prefix \o c.text \o c.suffix, 62)
  ELSE IF e.kind = "error" THEN Return(c.prefix \o c.text \o c.suffix, 65)
  ELSE RenderLink(c, e.href, el.title, options)

\* el: [pre: the anchor has a <pre> ancestor, href, title: attributes or None]
convert_a(el, text, options) == LinkOf(el, chomp(text), EscapeHref(el.href), options)

(***************************************************************************)
(* convert_img and the image output directory.                             *)
(***************************************************************************)
DATA == Str(<<"d", "a", "t", "a", ":">>)
DOTS == Str(<<".", ".", ".">>)
PNG == Str(<<"p", "n", "g">>)
IMAGE_ == Str(<<"i", "m", "a", "g", "e", "_">>)

\* "![%s](%s%s)" % (alt, src, title_part)
ImageMarkdown(alt, src, title_part) ==
  Str(<<"!", "[">>) \o alt \o Str(<<"]", "(">>) \o src \o title_part \o Str(<<")">>)

\* Truncated without the split of lines 139 and 142
Truncated_Whole(src) == src \o DOTS

\* src.split(",")[0] + "..."
Truncated(src) == Split(src, Ord(","))[1] \o DOTS

\* lines 120-125: the extension of the file name. ok = FALSE is the IndexError of
\* mime_type.split("/").pop(1) on a media type without "/"
Extension(src) ==
  IF Contains(src, Ord(";")) THEN
    LET mime_type == Split(Split(src, Ord(";"))[1], Ord(":"))[2]
        parts == Split(mime_type, Ord("/"))
    IN  IF mime_type = <<>> THEN [ok |-> TRUE, ext |-> PNG]
        ELSE IF Len(parts) < 2 THEN [ok |-> FALSE, ext |-> <<>>]
        ELSE [ok |-> TRUE, ext |-> parts[2]]
  ELSE [ok |-> TRUE, ext |-> PNG]

\* f"image_{uuid.uuid4().hex[:8]}" + f".{extension}"
Filename(id, ext) == IMAGE_ \o id \o Str(<<".">>) \o ext

\* lines 129-130: src.split(",")[1] decoded; ok = FALSE is the IndexError of a src
\* without a comma or the exception of b64decode
Payload(src) ==
  LET parts == Split(src, Ord(","))
  IN  IF Len(parts) < 2 THEN [ok |-> FALSE, bytes |-> <<>>] ELSE b64decode(parts[2])

\* The file system: the directories that exist and the content of each file.
NoFiles == [p \in {} |-> <<>>]
EmptyFs == [dirs |-> {}, files |-> NoFiles]

makedirs(fs, dir) == [fs EXCEPT !.dirs = @ \cup {DirOf(dir)}]

\* open(path, "wb") creates the file or truncates it; write then stores the bytes
OpenWb(fs, path) == [fs EXCEPT !.files = (path :> <<>>) @@ @]
WriteFile(fs, path, bytes) == [fs EXCEPT !.files = (path :> bytes) @@ @]

\* What the environment does to one extraction: the identifier uuid4 draws, the
\* system call that fails ("none", "makedirs", "open", "write") and, when write
\* fails, how many bytes reached the file before.
Env(id, fail, written) == [id |-> id, fail |-> fail, written |-> written]

\* Lines 107-142 for a data URI that is not kept: the new src, the file system and the
\* file a reference was returned to (saved), or the exception that leaves the call.
NoRef == [path |-> None, bytes |-> <<>>]

\* lines 128-139, with the directory made (fs1), the file name chosen and the payload
\* decoded (d) or not
SaveImage(src, image_output_dir, env, fs1, image_path, d) ==
  IF ~d.ok \/ env.fail = "open"
    THEN [raised |-> "", line |-> 139, src |-> Truncated(src), fs |-> fs1, saved |-> NoRef]
  ELSE IF env.fail = "write"
    THEN [raised |-> "", line |-> 139, src |-> Truncated(src),
          fs |-> WriteFile(OpenWb(fs1, image_path), image_path,
                           SubSeq(d.bytes, 1, Min({env.written, Len(d.bytes)}))),
          saved |-> NoRef]
  ELSE [raised |-> "", line |-> 136,
        src |-> join(basename(image_output_dir), basename(image_path)),
        fs |-> WriteFile(OpenWb(fs1, image_path), image_path, d.bytes),
        saved |-> [path |-> image_path, bytes |-> d.bytes]]

\* lines 114-139, with x the extension derived from src
ExtractTo(src, image_output_dir, env, fs, x) ==
  IF env.fail = "makedirs"
    THEN [raised |-> "OSError", line |-> 114, src |-> src, fs |-> fs, saved |-> NoRef]
  ELSE IF ~x.ok
    THEN [raised |-> "IndexError", line |-> 122, src |-> src,
          fs |-> makedirs(fs, image_output_dir), saved |-> NoRef]
  ELSE SaveImage(src, image_output_dir, env, makedirs(fs, image_output_dir),
                 join(image_output_dir, Filename(env.id, x.ext)), Payload(src))

ExtractImage(src, image_output_dir, env, fs) ==
  IF image_output_dir = None
    THEN [raised |-> "", line |-> 142, src |-> Truncated(src), fs |-> fs, saved |-> NoRef]
  ELSE ExtractTo(src, image_output_dir, env, fs, Extension(src))

\* attrs.get(name, None) or ""
OrEmpty(s) == IF s = None THEN <<>> ELSE s

\* the image is dropped to its alt text (lines 98-102)
Dropped(el, convert_as_inline, options) ==
  convert_as_inline /\ el.parent \notin options.keep_inline_images_in

\* HandlesDataUri without the keep_data_uris test of line 105
HandlesDataUri_AlwaysExtract(el, options) == StartsWith(OrEmpty(el.src), DATA)

\* the extraction of lines 107-142 is entered (line 105)
HandlesDataUri(el, options) ==
  StartsWith(OrEmpty(el.src), DATA) /\ ~options.keep_data_uris

\* el: [alt, src, title: attributes or None, parent: the tag name of the parent].
\* Returns the result of the call, the file system after it and the file referenced.
ImageOf(alt, title_part, x) ==
  IF x.raised # "" THEN [ret |-> Raise(x.raised, x.line), fs |-> x.fs, saved |-> NoRef]
  ELSE [ret |-> Return(ImageMarkdown(alt, x.src, title_part), 144), fs |-> x.fs,
        saved |-> x.saved]

convert_img(el, convert_as_inline, options, env, fs) ==
  IF Dropped(el, convert_as_inline, options)
    THEN [ret |-> Return(OrEmpty(el.alt), 102), fs |-> fs, saved |-> NoRef]
  ELSE IF HandlesDataUri(el, options)
    THEN ImageOf(OrEmpty(el.alt), TitlePart(OrEmpty(el.title)),
                 ExtractImage(OrEmpty(el.src), options.image_output_dir, env, fs))
  ELSE [ret |-> Return(ImageMarkdown(OrEmpty(el.alt), OrEmpty(el.src),
                                     TitlePart(OrEmpty(el.title))), 144),
        fs |-> fs, saved |-> NoRef]

(***************************************************************************)
(* The inputs the renderers are called with.                               *)
(***************************************************************************)
\* rendered child text of a heading
HeadingTexts ==
  { Str(<<"T">>), Str(<<"\n", "T">>), Str(<<" ", "T", " ", " ", "t">>), Str(<<"\n", "\n", "T", "\n">>) }

\* rendered child text of an anchor
LinkTexts ==
  { Str(<<" ", "x", " ">>), Str(<<"\n", "x">>), Str(<<"x", " ", " ">>), Str(<<" ", "\n">>),
    Str(<<" ", "a", "\\", "_", "b">>), Str(<<"j", "s", ":", "x">>) }

Hrefs ==
  { None, <<>>,
    Str(<<"a", "_", "b">>),
    Str(<<"j", "s", ":", "x">>),
    Str(<<"J", "s", ":", "x">>),
    Str(<<" ", "j", "\t", "s", ":", "x">>),
    Str(<<"H", "T", "T", "P", ":", "/", "/", "h", "/", "a", " ", "b", ";", "p", "?", "q", "#", "f">>),
    Str(<<"h", "t", "t", "p", "s", ":", "/", "/", "h", "/", "%", "2", "5", "2", "0">>),
    Str(<<"f", "i", "l", "e", ":", "/", "/", "/", "a", ")">>),
    Str(<<"h", "t", "t", "p", ":", "/", "/", "[", "x">>),
    Str(<<"/", "%", "2", "F">>) }

Titles == { None, Str(<<"t", "\"">>) }

Anchors == [pre : BOOLEAN, href : Hrefs, title : Titles]

Alts == { None, Str(<<"A">>) }

\* the payloads decode to three bytes, to one byte, to nothing (no base64 digit), and
\* not at all (one digit left over)
Srcs ==
  { None,
    Str(<<"p", ".", "p", "n", "g">>),
    Str(<<"d", "a", "t", "a", ":", "i", "m", "a", "g", "e", "/", "p", "n", "g", ";", "b", "a", "s", "e", "6", "4", ",", "A", "A", "A", "A">>),
    Str(<<"d", "a", "t", "a", ":", "i", "m", "a", "g", "e", "/", "p", "n", "g", ";", "b", "a", "s", "e", "6", "4", ",", "Q", "Q", "=", "=", ",", "z">>),
    Str(<<"d", "a", "t", "a", ":", "i", "m", "a", "g", "e", "/", "g", "i", "f", ";", "b", "a", "s", "e", "6", "4", ",", "!", "!">>),
    Str(<<"d", "a", "t", "a", ":", "i", "m", "a", "g", "e", "/", "p", "n", "g", ";", "b", "a", "s", "e", "6", "4", ",", "Q">>),
    Str(<<"d", "a", "t", "a", ":", "i", "m", "a", "g", "e", "/", "p", "n", "g", ";", "b", "a", "s", "e", "6", "4">>),
    Str(<<"d", "a", "t", "a", ":", "i", "m", "a", "g", "e", ";", "b", "a", "s", "e", "6", "4", ",", "A", "A", "A", "A">>),
    Str(<<"d", "a", "t", "a", ":", ";", "b", "a", "s", "e", "6", "4", ",", "Q", "Q", "=", "=">>),
    Str(<<"d", "a", "t", "a", ":", "i", "m", "a", "g", "e", "/", "g", "i", "f", ",", "A", "A", "A", "A">>) }

Images == [alt : Alts, src : Srcs, title : Titles, parent : {"a", "td"}]

\* uuid.uuid4().hex[:8]: eight hex digits; two of the 16^8 values
Ids ==
  { Str(<<"0", "0", "0", "0", "0", "0", "0", "a">>), Str(<<"0", "0", "0", "0", "0", "0", "0", "b">>) }

NoFailure == Env(Str(<<"0", "0", "0", "0", "0", "0", "0", "a">>), "none", 0)

Envs ==
  {Env(id, fail, 0) : id \in Ids, fail \in {"none", "makedirs", "open", "write"}}
    \cup {Env(id, "write", 1) : id \in Ids}

\* image_output_dir: not set, a directory, the same directory with a trailing separator
OutDirs == { None, Str(<<"o", "u", "t">>), Str(<<"o", "u", "t", "/">>) }

\* the options of a conversion pass: markdownify's defaults and those of lines 19-20
DefaultOptions ==
  [autolinks |-> TRUE, default_title |-> FALSE, keep_data_uris |-> FALSE,
   keep_inline_images_in |-> {}, image_output_dir |-> None]

\* every setting of the options convert_a reads, and of those convert_img reads
LinkConfigs ==
  {[DefaultOptions EXCEPT !.autolinks = a, !.default_title = d] : a \in BOOLEAN, d \in BOOLEAN}

ImageConfigs ==
  {[DefaultOptions EXCEPT !.keep_data_uris = k, !.keep_inline_images_in = t,
                          !.image_output_dir = o] :
     k \in BOOLEAN, t \in {{}, {"td"}}, o \in OutDirs}

Configs == LinkConfigs \cup ImageConfigs

(***************************************************************************)
(* The state: a conversion pass calls the renderers one after another.     *)
(***************************************************************************)
VARIABLES
  lib,       \* the release of markdownify installed
  options,   \* self.options, fixed for the pass
  call,      \* the arguments of the last renderer call, with what the environment did
  ret,       \* how that call ended
  fs,        \* the file system
  before,    \* the file system when that call began
  saved,     \* the file that call returned a reference to
  extractions, \* the calls that entered the image extraction so far
  passes,    \* concurrent passes: where each is in its image extraction
  refs       \* the references to saved images the passes have returned

vars == <<lib, options, call, ret, fs, before, saved, extractions, passes, refs>>

\* bound on the calls of one pass that enter the image extraction
MaxExtractions == 1

NoCall == [op |-> "none"]
NoResult == [kind |-> "none", val |-> <<>>, exc |-> "", line |-> 0]

Init ==
  /\ lib \in Libs
  /\ options \in Configs
  /\ lib = "plain" \/ options = DefaultOptions
  /\ call = NoCall
  /\ ret = NoResult
  /\ fs = EmptyFs
  /\ before = fs
  /\ saved = NoRef
  /\ extractions = 0
  /\ passes = <<>>
  /\ refs = {}

\* the engine renders a heading element
Heading ==
  /\ call = NoCall
  /\ \E n \in 1..6, text \in HeadingTexts, inline \in BOOLEAN :
    /\ call' = [op |-> "hn", n |-> n, text |-> text, inline |-> inline]
    /\ ret' = convert_hn(lib, n, text, inline)
    /\ before' = fs
    /\ saved' = NoRef
    /\ UNCHANGED <<lib, options, fs, extractions, passes, refs>>

\* the engine renders an anchor element
Link ==
  /\ call = NoCall
  /\ \E el \in Anchors, text \in LinkTexts :
    /\ call' = [op |-> "a", el |-> el, text |-> text]
    /\ ret' = convert_a(el, text, options)
    /\ before' = fs
    /\ saved' = NoRef
    /\ UNCHANGED <<lib, options, fs, extractions, passes, refs>>

\* the call enters lines 109-139
Extracts(el, inline, opts) ==
  ~Dropped(el, inline, opts) /\ HandlesDataUri(el, opts) /\ opts.image_output_dir # None

\* the engine renders an image element
Image ==
  /\ call = NoCall
  /\ \E el \in Images, inline \in BOOLEAN, env \in Envs :
    LET r == convert_img(el, inline, options, env, fs)
        x == Extracts(el, inline, options)
    IN  /\ x => extractions < MaxExtractions
        /\ ~x => env = NoFailure
        /\ call' = [op |-> "img", el |-> el, inline |-> inline, env |-> env]
        /\ ret' = r.ret
        /\ fs' = r.fs
        /\ before' = fs
        /\ saved' = r.saved
        /\ extractions' = IF x THEN extractions + 1 ELSE extractions
        /\ UNCHANGED <<lib, options, passes, refs>>

\* the engine takes the result and goes on to the next element
Continue ==
  /\ call # NoCall
  /\ call' = NoCall
  /\ ret' = NoResult
  /\ before' = fs
  /\ saved' = NoRef
  /\ UNCHANGED <<lib, options, fs, extractions, passes, refs>>

Next == Heading \/ Link \/ Image \/ Continue

Spec == Init /\ [][Next]_vars

(***************************************************************************)
(* Rendered hrefs fed back to the link renderer: the hrefs are a prefix    *)
(* (nothing, "/", a scheme, a scheme and a host) followed by a path, the    *)
(* path every string up to MaxPathLen over PathChars, percent-encoded up   *)
(* to MaxEncodings times more.                                             *)
(***************************************************************************)
PathChars == {Ord(" "), Ord("%"), Ord("2"), Ord("5"), Ord("F"), Ord("/")}

RECURSIVE StringsUpTo(_)
StringsUpTo(n) ==
  IF n = 0 THEN {<<>>}
  ELSE LET S == StringsUpTo(n - 1)
       IN  S \cup {Append(s, c) : s \in {t \in S : Len(t) = n - 1}, c \in PathChars}

RECURSIVE Encoded(_, _)
Encoded(p, k) == IF k = 0 THEN p ELSE quote(Encoded(p, k - 1))

\* "%C3%A9" (e acute in UTF-8), "%E9" (not UTF-8), and e acute itself
OtherPaths ==
  { Str(<<"/", "%", "C", "3", "%", "A", "9">>), Str(<<"/", "%", "E", "9">>), <<Ord("/"), 233>> }

Paths ==
  {Encoded(p, k) : p \in StringsUpTo(MaxPathLen), k \in 0..MaxEncodings} \cup OtherPaths

HrefPrefixes ==
  { <<>>, Str(<<"/">>), Str(<<"h", "t", "t", "p", ":">>), Str(<<"h", "t", "t", "p", ":", "/", "/", "h", "/">>) }

EXAMPLE_HREF ==
  Str(<<"h", "t", "t", "p", ":", "/", "/", "e", "x", "a", "m", "p", "l", "e", ".", "c", "o", "m", "/", "a", " ", "b">>)

PathHrefs == {pre \o p : pre \in HrefPrefixes, p \in Paths} \cup {EXAMPLE_HREF}

LINK_TEXT == Str(<<"x">>)

InitURI ==
  /\ lib = "plain"
  /\ options = DefaultOptions
  /\ call = NoCall
  /\ ret = NoResult
  /\ fs = EmptyFs
  /\ before = fs
  /\ saved = NoRef
  /\ extractions = 0
  /\ passes = <<>>
  /\ refs = {}

\* the engine renders an anchor whose text is "x"
RenderHref ==
  /\ call = NoCall
  /\ \E href \in PathHrefs :
    /\ call' = [op |-> "a", el |-> [pre |-> FALSE, href |-> href, title |-> None],
                text |-> LINK_TEXT, fed |-> 0, origin |-> href, rendered |-> <<>>]
    /\ ret' = convert_a(call'.el, LINK_TEXT, options)
    /\ UNCHANGED <<lib, options, fs, before, saved, extractions, passes, refs>>

\* the href of "[x](href)"
HrefOf(markdown) == SubSeq(markdown, Len(LINK_TEXT) + 4, Len(markdown) - 1)

\* the Markdown is parsed again and its link rendered: the anchor has the rendered href
FeedBack ==
  /\ call # NoCall
  /\ ret.line = 80
  /\ call.fed < MaxFeeds
  /\ call' = [call EXCEPT !.el.href = HrefOf(ret.val), !.fed = @ + 1,
                          !.origin = call.el.href, !.rendered = ret.val]
  /\ ret' = convert_a(call'.el, LINK_TEXT, options)
  /\ UNCHANGED <<lib, options, fs, before, saved, extractions, passes, refs>>

NextURI == RenderHref \/ FeedBack

SpecURI == InitURI /\ [][NextURI]_vars

(***************************************************************************)
(* Concurrent conversion passes that extract images into one directory:    *)
(* lines 114-136 of convert_img, one file system operation at a time.      *)
(***************************************************************************)
PassIds == {1, 2}

\* the images of the passes: two data URIs with different payloads
PassSrcs ==
  { Str(<<"d", "a", "t", "a", ":", "i", "m", "a", "g", "e", "/", "p", "n", "g", ";", "b", "a", "s", "e", "6", "4", ",", "A", "A", "A", "A">>),
    Str(<<"d", "a", "t", "a", ":", "i", "m", "a", "g", "e", "/", "p", "n", "g", ";", "b", "a", "s", "e", "6", "4", ",", "Q", "Q", "=", "=">>) }

OUT == Str(<<"o", "u", "t">>)

Idle(n) == [pc |-> "idle", src |-> <<>>, path |-> <<>>, done |-> n]

InitDir ==
  /\ lib = "plain"
  /\ options = [DefaultOptions EXCEPT !.image_output_dir = OUT]
  /\ call = NoCall
  /\ ret = NoResult
  /\ fs = EmptyFs
  /\ before = fs
  /\ saved = NoRef
  /\ extractions = 0
  /\ passes = [p \in PassIds |-> Idle(0)]
  /\ refs = {}

\* line 114: convert_img is entered for a data URI and makes the directory
PassMakedirs(p) ==
  /\ passes[p].pc = "idle"
  /\ passes[p].done < MaxImages
  /\ \E src \in PassSrcs :
    /\ passes' = [passes EXCEPT ![p].pc = "name", ![p].src = src]
    /\ fs' = makedirs(fs, options.image_output_dir)
    /\ UNCHANGED <<lib, options, call, ret, before, saved, extractions, refs>>

\* lines 117-131: the file name is drawn and the payload decoded
PassName(p) ==
  /\ passes[p].pc = "name"
  /\ \E id \in Ids :
    /\ passes' = [passes EXCEPT ![p].pc = "open",
                    ![p].path = join(options.image_output_dir,
                                     Filename(id, Extension(passes[p].src).ext))]
    /\ UNCHANGED <<lib, options, call, ret, fs, before, saved, extractions, refs>>

\* line 132: open(image_path, "wb")
PassOpen(p) ==
  /\ passes[p].pc = "open"
  /\ passes' = [passes EXCEPT ![p].pc = "write"]
  /\ fs' = OpenWb(fs, passes[p].path)
  /\ UNCHANGED <<lib, options, call, ret, before, saved, extractions, refs>>

\* line 133: f.write(image_data), and the file is closed
PassWrite(p) ==
  /\ passes[p].pc = "write"
  /\ passes' = [passes EXCEPT ![p].pc = "return"]
  /\ fs' = WriteFile(fs, passes[p].path, Payload(passes[p].src).bytes)
  /\ UNCHANGED <<lib, options, call, ret, before, saved, extractions, refs>>

\* lines 136 and 144: the reference to the saved image is returned
PassReturn(p) ==
  /\ passes[p].pc = "return"
  /\ refs' = refs \cup {[pass |-> p, image |-> passes[p].done + 1, path |-> passes[p].path,
                         bytes |-> Payload(passes[p].src).bytes]}
  /\ passes' = [passes EXCEPT ![p] = Idle(passes[p].done + 1)]
  /\ UNCHANGED <<lib, options, call, ret, fs, before, saved, extractions>>

NextDir ==
  \E p \in PassIds :
    PassMakedirs(p) \/ PassName(p) \/ PassOpen(p) \/ PassWrite(p) \/ PassReturn(p)

SpecDir == InitDir /\ [][NextDir]_vars

(***************************************************************************)
(* The claims.                                                             *)
(***************************************************************************)
IsLinkCall == call # NoCall /\ call.op = "a"
IsImageCall == call # NoCall /\ call.op = "img"
IsHeadingCall == call # NoCall /\ call.op = "hn"

\* the part of s before its first comma, all of s when it has none
BeforeFirstComma(s) ==
  LET i == Find(s, Ord(",")) IN IF i = 0 THEN s ELSE SubSeq(s, 1, i - 1)

\* the image call is not dropped to its alt text
NotDropped == ~(call.inline /\ call.el.parent \notin options.keep_inline_images_in)

IsDataUri(src) == StartsWith(OrEmpty(src), DATA)

\* the Markdown of a truncated data URI
TruncatedMarkdown ==
  ImageMarkdown(OrEmpty(call.el.alt), BeforeFirstComma(OrEmpty(call.el.src)) \o DOTS,
                TitlePart(OrEmpty(call.el.title)))

\* C1: no call of the heading, link or image renderer raises an exception to its
\* caller; every call returns a string.
C1_NeverRaises == ret.kind # "raise"

\* the scheme an href declares (RFC 3986: a letter, then letters, digits, "+", "-",
\* "." up to the first ":"), in lower case; empty when it declares none
DeclaredScheme(href) ==
  LET i == Find(href, Ord(":"))
  IN  IF /\ i > 1
         /\ (IsUpper(href[1]) \/ IsLower(href[1]))
         /\ \A k \in 1..(i - 1) : IsSchemeChar(href[k])
      THEN Lower(SubSeq(href, 1, i - 1)) ELSE <<>>

HasUnsafeScheme ==
  /\ IsLinkCall
  /\ Strip(call.text) # <<>>
  /\ ~call.el.pre
  /\ Truthy(call.el.href)
  /\ DeclaredScheme(call.el.href) \notin {<<>>, HTTP, HTTPS, FILE}

\* C2: an anchor with non-empty trimmed text, outside <pre>, whose href declares a
\* scheme other than http, https and file (in any case) renders as exactly
\* prefix + text + suffix, with no link syntax and without the href being emitted,
\* whatever autolinks, default_title and title are.
C2_UnsafeSchemeIsPlainText ==
  HasUnsafeScheme =>
    /\ ret.kind = "return"
    /\ ret.val = chomp(call.text).prefix \o Strip(call.text) \o chomp(call.text).suffix

\* C2 happens where the autolink form would otherwise apply: autolinks on, no title,
\* and the text equal to the href
C2_Witness ==
  /\ HasUnsafeScheme
  /\ options.autolinks /\ ~options.default_title /\ call.el.title = None
  /\ UnescapeUnderscores(Strip(call.text)) = call.el.href
  /\ ret.val = Strip(call.text)

\* the call entered the image extraction
ExtractionTriggered ==
  /\ IsImageCall
  /\ NotDropped
  /\ IsDataUri(call.el.src)
  /\ ~options.keep_data_uris
  /\ options.image_output_dir # None

\* a step of the extraction failed: making the directory, deriving the extension,
\* decoding the payload, opening or writing the file
StepFailed ==
  \/ call.env.fail # "none"
  \/ ~Extension(OrEmpty(call.el.src)).ok
  \/ ~Payload(OrEmpty(call.el.src)).ok

\* C3: when the image extraction is entered and any step of it fails, the renderer
\* returns the truncated data URI, "![alt](" + src before its first comma + "..." +
\* title_part + ")", and references no file.
C3_FailureFallsBack ==
  (ExtractionTriggered /\ StepFailed) =>
    /\ ret.kind = "return"
    /\ ret.val = TruncatedMarkdown
    /\ saved = NoRef

\* C4: an image that is not dropped, with a data URI src, keep_data_uris false and no
\* image_output_dir renders as "![" + alt + "](" + P + "..." + title_part + ")", P being
\* the src before its first comma: nothing of the payload is emitted.
C4_TruncatedDataUri ==
  ( /\ IsImageCall
    /\ NotDropped
    /\ IsDataUri(call.el.src)
    /\ ~options.keep_data_uris
    /\ options.image_output_dir = None )
  => (ret.kind = "return" /\ ret.val = TruncatedMarkdown)

\* C4 on a src that has a payload after its comma, with a title
C4_Witness ==
  /\ IsImageCall
  /\ NotDropped
  /\ IsDataUri(call.el.src)
  /\ ~options.keep_data_uris
  /\ options.image_output_dir = None
  /\ call.el.title # None
  /\ Find(call.el.src, Ord(",")) \in 1..(Len(call.el.src) - 1)
  /\ ret.val = TruncatedMarkdown

\* the subtype of the media type a data URI declares ("data:" type "/" subtype, up
\* to the first ";" or ","), png when it declares no media type
DeclaredSubtype(src) ==
  LET rest == From(src, Len(DATA) + 1)
      I == {i \in 1..Len(rest) : rest[i] \in {Ord(";"), Ord(",")}}
      media == IF I = {} THEN rest ELSE SubSeq(rest, 1, Min(I) - 1)
      slash == Find(media, Ord("/"))
  IN  IF media = <<>> THEN PNG ELSE From(media, slash + 1)

\* C5: when the extraction succeeds, a file image_<id>.<ext> directly under
\* image_output_dir (given with or without a trailing separator) holds the decoded
\* payload, <ext> is the declared MIME subtype (png when none is declared), and the
\* src of the returned Markdown is "<base name of image_output_dir>/image_<id>.<ext>".
C5_SavedImageReference ==
  (IsImageCall /\ saved # NoRef) =>
    LET dir == DirOf(options.image_output_dir)
        name == Filename(call.env.id, DeclaredSubtype(call.el.src))
        path == dir \o SEP \o name
    IN  /\ path \in DOMAIN fs.files
        /\ fs.files[path] = Payload(call.el.src).bytes
        /\ ret.kind = "return"
        /\ ret.val = ImageMarkdown(OrEmpty(call.el.alt), basename(dir) \o SEP \o name,
                                   TitlePart(OrEmpty(call.el.title)))

\* the index of the first character of s that is not a newline, 0 when there is none
FirstNonNewline(s) ==
  LET I == {i \in 1..Len(s) : s[i] # Ord("\n")} IN IF I = {} THEN 0 ELSE Min(I)

\* C6: a heading of level 1-6 rendered with the inline flag false begins with a
\* newline placed before the hash markers, whether or not the rendered child text
\* begins with a newline; when it does, the override prepends nothing.
C6_HeadingStartsWithNewline ==
  (IsHeadingCall /\ ~call.inline) =>
    LET j == FirstNonNewline(ret.val)
    IN  /\ ret.kind = "return"
        /\ j > 1
        /\ SubSeq(ret.val, j, j + call.n) = Hashes(call.n) \o SP
        /\ StartsWith(call.text, NL) =>
             ret.val = MarkdownConverter_convert_hn(lib, call.n, call.text, call.inline)

\* the whitespace a string begins and ends with
LeadingSpace(s) ==
  LET I == {i \in 1..Len(s) : ~IsSpace(s[i])}
  IN  IF I = {} THEN s ELSE SubSeq(s, 1, Min(I) - 1)

TrailingSpace(s) ==
  LET I == {i \in 1..Len(s) : ~IsSpace(s[i])}
  IN  IF I = {} THEN <<>> ELSE From(s, Max(I) + 1)

\* one space when c is a space, nothing otherwise
SpaceIf(c) == IF c = Ord(" ") THEN SP ELSE <<>>

\* C8 as stated: for an anchor with non-empty trimmed text, on every return path the
\* output is the leading whitespace of the rendered child text, the markup, and its
\* trailing whitespace.
C8_WhitespaceOnEveryPath ==
  (IsLinkCall /\ Strip(call.text) # <<>>) =>
    /\ ret.kind = "return"
    /\ ret.val = LeadingSpace(call.text) \o Strip(ret.val) \o TrailingSpace(call.text)

\* C8 as amended: the bracketed link (line 80), the rejected scheme (62) and the
\* parse failure (65) put around the markup the prefix and suffix chomp extracted, one
\* space when the text begins, or ends, with a space and nothing otherwise; the
\* autolink (75), the anchor without href (82) and the anchor in <pre> (52) return
\* the markup alone.
C8_ChompedSpaceOnLinkPaths ==
  (IsLinkCall /\ Strip(call.text) # <<>>) =>
    LET text == Strip(call.text)
        prefix == SpaceIf(call.text[1])
        suffix == SpaceIf(call.text[Len(call.text)])
    IN  /\ ret.kind = "return"
        /\ ret.line \in {52, 62, 65, 75, 80, 82}
        /\ ret.line \in {62, 65} => ret.val = prefix \o text \o suffix
        /\ ret.line = 80 =>
             /\ ret.val = prefix \o Strip(ret.val) \o suffix
             /\ StartsWith(Strip(ret.val), Str(<<"[">>) \o text \o Str(<<"]", "(">>))
        /\ ret.line \in {52, 82} => ret.val = text
        /\ ret.line = 75 => ret.val = Strip(ret.val) /\ ret.val[1] = Ord("<")

\* C8 on a bracketed link whose text begins and ends with a space
C8_Witness ==
  /\ IsLinkCall
  /\ call.text[1] = Ord(" ") /\ call.text[Len(call.text)] = Ord(" ")
  /\ Strip(call.text) # <<>>
  /\ ret.line = 80
  /\ ret.val[1] = Ord(" ") /\ ret.val[Len(ret.val)] = Ord(" ")

\* C10: heading and link calls leave the file system unchanged; an image call
\* changes it only if the image is not dropped to its alt text, its src is a data
\* URI, keep_data_uris is false and image_output_dir is set; with keep_data_uris
\* true the src is emitted verbatim and nothing is written.
C10_OnlyExtractionWrites ==
  /\ (IsHeadingCall \/ IsLinkCall) => fs = before
  /\ (IsImageCall /\ fs # before) =>
       /\ NotDropped
       /\ IsDataUri(call.el.src)
       /\ ~options.keep_data_uris
       /\ options.image_output_dir # None
  /\ (IsImageCall /\ options.keep_data_uris /\ NotDropped) =>
       /\ fs = before
       /\ ret.val = ImageMarkdown(OrEmpty(call.el.alt), OrEmpty(call.el.src),
                                  TitlePart(OrEmpty(call.el.title)))

\* C10 on an image call that wrote a file
C10_Witness ==
  /\ IsImageCall
  /\ fs # before
  /\ saved # NoRef
  /\ saved.path \in DOMAIN fs.files
  /\ saved.path \notin DOMAIN before.files

\* C9: whatever the sequence or interleaving of image extractions into one
\* directory, no extraction overwrites the file of another: the files of the
\* returned references are distinct and each still holds its image's decoded bytes.
C9_NoOverwrite ==
  /\ \A r \in refs : r.path \in DOMAIN fs.files /\ fs.files[r.path] = r.bytes
  /\ \A r1, r2 \in refs : r1 # r2 => r1.path # r2.path

\* the rendered form of the href of the example
EXAMPLE_RENDERED ==
  Str(<<"[", "x", "]", "(", "h", "t", "t", "p", ":", "/", "/", "e", "x", "a", "m", "p", "l", "e", ".", "c", "o", "m", "/", "a", "%", "2", "0", "b", ")">>)

\* the path rewrite is idempotent on the path of the href of the call
PathRewriteIdempotent ==
  LET p == urlparse(call.el.href)
  IN  p.ok => RewritePath(RewritePath(p.path)) = RewritePath(p.path)

ExampleRenders ==
  (call.el.href = EXAMPLE_HREF /\ call.fed = 0) => ret.val = EXAMPLE_RENDERED

\* C7 as stated: the path rewrite quote(unquote(p)) is idempotent, so a rendered href
\* fed back to the link renderer renders the same, and "http://example.com/a b"
\* renders as "http://example.com/a%20b".
C7_RenderedHrefIsStable ==
  IsLinkCall =>
    /\ PathRewriteIdempotent
    /\ call.fed > 0 => ret.val = call.rendered
    /\ ExampleRenders

\* the href has no scheme and no authority and its rewritten path begins with "//"
DoubleSlashPath(href) ==
  LET p == urlparse(href)
  IN  /\ p.ok
      /\ p.scheme = <<>>
      /\ p.netloc = <<>>
      /\ StartsWith(RewritePath(p.path), Str(<<"/", "/">>))

\* C7 as amended: the path rewrite is idempotent and the example renders as stated;
\* a rendered href fed back renders the same unless the href it came from has no
\* scheme, no authority and a rewritten path that begins with "//".
C7_PathRewriteIsIdempotent ==
  IsLinkCall =>
    /\ PathRewriteIdempotent
    /\ (call.fed > 0 /\ ~DoubleSlashPath(call.origin)) => ret.val = call.rendered
    /\ ExampleRenders

\* C7 on an href whose path is percent-encoded twice, fed back
C7_Witness ==
  /\ IsLinkCall
  /\ call.fed > 0
  /\ HasSubstring(call.origin, Str(<<"%", "2", "5", "2", "0">>))
  /\ ret.line = 80
  /\ ret.val = call.rendered

====
